---- MODULE Spec2Model ----
(***************************************************************************)
(* Model of the social-network graph engine of practical-1:                *)
(*   graph_builder.py   SocialNetworkGraphBuilder (three DiGraphs built    *)
(*                      from the tweet collection, rankings)               *)
(*   data_collector.py  store_tweets_in_mongodb (the collection grows)     *)
(* A networkx DiGraph is a record                                          *)
(*   nodes : the node ids, in the order of their first insertion           *)
(*   edges : the records [source, target, weight], in the order of their   *)
(*           first insertion; at most one record per ordered pair          *)
(* A Python dict (defaultdict(int)) is a sequence of [key, count] entries  *)
(* in the order of first insertion of the keys.                            *)
(***************************************************************************)
EXTENDS Integers, Sequences, FiniteSets, TLC

VARIABLES
    collection,          \* the tweets collection of MongoDB, in natural order
    hashtag_graph,       \* self.hashtag_graph of the live builder
    mention_graph,       \* self.mention_graph of the live builder
    user_hashtag_graph,  \* self.user_hashtag_graph of the live builder
    ret,                 \* the latest graph a build operation returned
    ranking,             \* the latest get_top_nodes call and its result
    metrics,             \* the latest calculate_graph_metrics call and its result
    saved,               \* the latest save_graph_data call and the data it wrote
    pipeline,            \* the run of main() of main.py: its arguments and position
    collector            \* the run of collect_tweets_by_hashtags: its lists and position

vars == <<collection, hashtag_graph, mention_graph, user_hashtag_graph, ret, ranking, metrics,
          saved, pipeline, collector>>

\* what the operations of the graph builder leave alone
outside_builder == <<saved, pipeline, collector>>

\* ------------------------------------------------------------------ bounds
MaxDocs == 2        \* documents in the collection
MaxTags == 3        \* hashtags of one document
MaxMentions == 2    \* mentions of one document
MaxTopN == 2        \* top_n is drawn from -MaxTopN .. MaxTopN
ScenarioDocs == 3   \* documents in a collection of the mention scenario
MaxHashtags == 3    \* hashtags of DATA_CONFIG['hashtags']
MaxFetched == 2     \* tweets the search returns in one run of the collector

Users == {"u1", "u2"}
Hashtags == {"#a", "#b"}
MentionTokens == {"@u1", "@u2"}
\* before any build operation returned, and before any ranking call
NoReturn == [op |-> "none", batch |-> <<>>, graph |-> [nodes |-> <<>>, edges |-> <<>>],
             again |-> FALSE, raised |-> ""]

NoRanking == [metric |-> "none", top_n |-> 0, graph |-> [nodes |-> <<>>, edges |-> <<>>],
              result |-> <<>>, raised |-> ""]

\* before any save_graph_data call
NoSave == [filename |-> "none", graph |-> [nodes |-> <<>>, edges |-> <<>>],
           data |-> [nodes |-> <<>>, edges |-> <<>>]]

\* main() of main.py has not been started
NoRun == [pc |-> "idle", phase |-> "all", skip_collection |-> FALSE, success |-> TRUE,
          ran |-> <<>>, failed |-> {}, reports |-> 0, exit |-> "none"]

\* collect_tweets_by_hashtags has not been called
NoCollector == [pc |-> "idle", hashtags |-> <<>>, min_retweets |-> 0, min_likes |-> 0,
                hashtag |-> 0, all_tweets |-> <<>>, hashtag_tweets |-> <<>>,
                seen |-> <<>>, errors |-> {}, completed |-> {}]

\* nothing is saved, and neither the pipeline nor the collector runs
Idle == saved = NoSave /\ pipeline = NoRun /\ collector = NoCollector

\* before any calculate_graph_metrics call
NoMetrics == [graph_name |-> "none", graph |-> [nodes |-> <<>>, edges |-> <<>>],
              result |-> <<>>]

SeqsUpTo(S, n) == UNION {[1..k -> S] : k \in 0..n}

\* Python's order of the str values the model uses (sorted() compares them).
StrOrder == <<"#a", "#b", "#c", "u1", "u2">>

StrIndex(s) == CHOOSE i \in 1..Len(StrOrder) : StrOrder[i] = s

\* sorted([x, y]) as a tuple
sorted_pair(x, y) == IF StrIndex(x) <= StrIndex(y) THEN <<x, y>> ELSE <<y, x>>

\* mention.replace('@', '') on the tokens re.findall(r'@\w+') yields
replace_at(mention) ==
    CASE mention = "@u1" -> "u1"
      [] mention = "@u2" -> "u2"
      [] mention = "@u3" -> "u3"
      [] OTHER -> mention

Tweet(a, h, m) == [author_id |-> a, hashtags |-> h, mentions |-> m]

\* test_doc of test_mongodb: a document of the tweets collection that has none of
\* the fields of a tweet
test_doc == [test |-> TRUE, timestamp |-> "2024-01-01"]

\* tweet[field] raises KeyError for a document that lacks the field
raises_KeyError(tweets, fields) ==
    \E i \in 1..Len(tweets) : \E field \in fields : field \notin DOMAIN tweets[i]

\* ------------------------------------------------------------ dict (int)
Keys(d) == {d[i].key : i \in 1..Len(d)}

KeyIndex(d, k) == CHOOSE i \in 1..Len(d) : d[i].key = k

Get(d, k) == IF k \in Keys(d) THEN d[KeyIndex(d, k)].count ELSE 0

\* a plausible slip: d[key] = 1 in place of d[key] += 1
IncrementAssignsOne(d, k) ==
    IF k \in Keys(d)
    THEN [d EXCEPT ![KeyIndex(d, k)].count = 1]
    ELSE Append(d, [key |-> k, count |-> 1])

\* a plausible slip: a new key is entered with 0 (d.setdefault(key, 0)) and only
\* a key already there is counted up
IncrementFromSecond(d, k) ==
    IF k \in Keys(d)
    THEN [d EXCEPT ![KeyIndex(d, k)].count = @ + 1]
    ELSE Append(d, [key |-> k, count |-> 0])

\* d[key] += 1 on a defaultdict(int)
Increment(d, k) ==
    IF k \in Keys(d)
    THEN [d EXCEPT ![KeyIndex(d, k)].count = @ + 1]
    ELSE Append(d, [key |-> k, count |-> 1])

RECURSIVE IncrementAll(_, _)
IncrementAll(d, ks) ==
    IF ks = <<>> THEN d ELSE IncrementAll(Increment(d, Head(ks)), Tail(ks))

\* --------------------------------------------------------------- DiGraph
EmptyDiGraph == [nodes |-> <<>>, edges |-> <<>>]

NodeSet(g) == {g.nodes[i] : i \in 1..Len(g.nodes)}

EdgeSet(g) == {<<g.edges[i].source, g.edges[i].target>> : i \in 1..Len(g.edges)}

EdgeIndex(g, u, v) ==
    CHOOSE i \in 1..Len(g.edges) : g.edges[i].source = u /\ g.edges[i].target = v

Weight(g, u, v) == g.edges[EdgeIndex(g, u, v)].weight

\* the edge-weight map of a graph
EdgeWeights(g) ==
    {<<<<g.edges[i].source, g.edges[i].target>>, g.edges[i].weight>> : i \in 1..Len(g.edges)}

add_node(nodes, n) == IF \E i \in 1..Len(nodes) : nodes[i] = n THEN nodes ELSE Append(nodes, n)

\* a plausible slip: the weight of an existing edge is added to, not replaced
add_edge_accumulates(g, u, v, w) ==
    [nodes |-> add_node(add_node(g.nodes, u), v),
     edges |-> IF <<u, v>> \in EdgeSet(g)
               THEN [g.edges EXCEPT ![EdgeIndex(g, u, v)].weight = @ + w]
               ELSE Append(g.edges, [source |-> u, target |-> v, weight |-> w])]

\* graph.add_edge(u, v, weight=w): both nodes are created when missing, and the
\* weight attribute of an existing edge is overwritten
add_edge(g, u, v, w) ==
    [nodes |-> add_node(add_node(g.nodes, u), v),
     edges |-> IF <<u, v>> \in EdgeSet(g)
               THEN [g.edges EXCEPT ![EdgeIndex(g, u, v)].weight = w]
               ELSE Append(g.edges, [source |-> u, target |-> v, weight |-> w])]

\* ------------------------------------------------- build_hashtag_graph
\* for i in range(len(hashtags)): for j in range(i + 1, len(hashtags)):
\*     pair = tuple(sorted([hashtags[i], hashtags[j]]))
RECURSIVE tweet_pairs(_, _, _)
tweet_pairs(hashtags, i, j) ==
    IF i > Len(hashtags) THEN <<>>
    ELSE IF j > Len(hashtags) THEN tweet_pairs(hashtags, i + 1, i + 2)
    ELSE <<sorted_pair(hashtags[i], hashtags[j])>> \o tweet_pairs(hashtags, i, j + 1)

\* the loop over the tweets that fills hashtag_pairs
RECURSIVE hashtag_pairs(_, _)
hashtag_pairs(d, tweets) ==
    IF tweets = <<>> THEN d
    ELSE LET hashtags == Head(tweets).hashtags IN
         hashtag_pairs(IF Len(hashtags) >= 2
                       THEN IncrementAll(d, tweet_pairs(hashtags, 1, 2))
                       ELSE d,
                       Tail(tweets))

\* the loop that adds both directions of every counted pair
RECURSIVE add_hashtag_edges(_, _)
add_hashtag_edges(g, items) ==
    IF items = <<>> THEN g
    ELSE LET p == Head(items) IN
         add_hashtag_edges(
             add_edge(add_edge(g, p.key[1], p.key[2], p.count), p.key[2], p.key[1], p.count),
             Tail(items))

\* self.collection.find({"hashtags": {"$ne": []}}); $ne also matches a document
\* that has no such field
find_with_hashtags(coll) ==
    SelectSeq(coll, LAMBDA t : "hashtags" \notin DOMAIN t \/ t.hashtags # <<>>)

\* the graph build_hashtag_graph leaves in self.hashtag_graph and returns
built_hashtag_graph(g, coll) ==
    add_hashtag_edges(g, hashtag_pairs(<<>>, find_with_hashtags(coll)))

\* ------------------------------------------------- build_mention_graph
\* for mention in mentions: edge = (author, mention.replace('@', ''))
RECURSIVE mention_keys(_, _)
mention_keys(author, mentions) ==
    IF mentions = <<>> THEN <<>>
    ELSE <<(<<author, replace_at(Head(mentions))>>)>> \o mention_keys(author, Tail(mentions))

\* the loop over the tweets that fills mention_edges
RECURSIVE mention_edges(_, _)
mention_edges(d, tweets) ==
    IF tweets = <<>> THEN d
    ELSE mention_edges(
             IncrementAll(d, mention_keys(Head(tweets).author_id, Head(tweets).mentions)),
             Tail(tweets))

\* for (source, target), weight in items: graph.add_edge(source, target, weight=weight)
RECURSIVE add_directed_edges(_, _)
add_directed_edges(g, items) ==
    IF items = <<>> THEN g
    ELSE LET e == Head(items) IN
         add_directed_edges(add_edge(g, e.key[1], e.key[2], e.count), Tail(items))

\* self.collection.find({"mentions": {"$ne": []}}); $ne also matches a document
\* that has no such field
find_with_mentions(coll) ==
    SelectSeq(coll, LAMBDA t : "mentions" \notin DOMAIN t \/ t.mentions # <<>>)

\* the graph build_mention_graph leaves in self.mention_graph and returns
built_mention_graph(g, coll) ==
    add_directed_edges(g, mention_edges(<<>>, find_with_mentions(coll)))

\* --------------------------------------------- build_user_hashtag_graph
\* for hashtag in hashtags: edge = (author, hashtag)
RECURSIVE user_hashtag_keys(_, _)
user_hashtag_keys(author, hashtags) ==
    IF hashtags = <<>> THEN <<>>
    ELSE <<(<<author, Head(hashtags)>>)>> \o user_hashtag_keys(author, Tail(hashtags))

\* the loop over the tweets that fills user_hashtag_edges
RECURSIVE user_hashtag_edges(_, _)
user_hashtag_edges(d, tweets) ==
    IF tweets = <<>> THEN d
    ELSE user_hashtag_edges(
             IncrementAll(d, user_hashtag_keys(Head(tweets).author_id, Head(tweets).hashtags)),
             Tail(tweets))

\* a plausible slip: graph.add_node(author) for every document read, before the
\* edges are added
RECURSIVE add_author_nodes(_, _)
add_author_nodes(nodes, tweets) ==
    IF tweets = <<>> THEN nodes
    ELSE add_author_nodes(add_node(nodes, Head(tweets).author_id), Tail(tweets))

built_with_author_nodes(g, coll) ==
    add_directed_edges([g EXCEPT !.nodes = add_author_nodes(g.nodes, coll)],
                       user_hashtag_edges(<<>>, coll))

\* the graph build_user_hashtag_graph leaves in self.user_hashtag_graph and
\* returns; it reads self.collection.find({})
built_user_hashtag_graph(g, coll) ==
    add_directed_edges(g, user_hashtag_edges(<<>>, coll))

\* --------------------------------------------------------- get_top_nodes
\* a plausible slip: graph.in_degree(weight='weight'), the sum of the weights of
\* the stored edges that end in n
RECURSIVE in_degree_weighted(_, _)
in_degree_weighted(g, n) ==
    IF g.edges = <<>> THEN 0
    ELSE (IF Head(g.edges).target = n THEN Head(g.edges).weight ELSE 0)
         + in_degree_weighted([g EXCEPT !.edges = Tail(g.edges)], n)

\* graph.in_degree(): the number of stored edges that end in n
in_degree(g, n) == Cardinality({i \in 1..Len(g.edges) : g.edges[i].target = n})

\* [(n, d) for n, d in graph.in_degree()], in the order of the nodes
degree_scores(g) == [i \in 1..Len(g.nodes) |-> <<g.nodes[i], in_degree(g, g.nodes[i])>>]

\* a plausible slip: an ascending sort that is then reversed, which puts x before
\* the entries of the same score
RECURSIVE insert_before_ties(_, _)
insert_before_ties(sorted, x) ==
    IF sorted = <<>> THEN <<x>>
    ELSE IF Head(sorted)[2] > x[2] THEN <<Head(sorted)>> \o insert_before_ties(Tail(sorted), x)
    ELSE <<x>> \o sorted

\* where a stable descending sort puts x among the already sorted: after every
\* entry whose score is not smaller
RECURSIVE insert_descending(_, _)
insert_descending(sorted, x) ==
    IF sorted = <<>> THEN <<x>>
    ELSE IF Head(sorted)[2] >= x[2] THEN <<Head(sorted)>> \o insert_descending(Tail(sorted), x)
    ELSE <<x>> \o sorted

\* sorted(node_scores, key=lambda x: x[1], reverse=True)
RECURSIVE sorted_descending(_, _)
sorted_descending(done, rest) ==
    IF rest = <<>> THEN done
    ELSE sorted_descending(insert_descending(done, Head(rest)), Tail(rest))

\* seq[:n] of Python: a negative n counts from the end
slice_to(seq, n) ==
    IF n >= 0
    THEN SubSeq(seq, 1, IF n < Len(seq) THEN n ELSE Len(seq))
    ELSE SubSeq(seq, 1, IF Len(seq) + n > 0 THEN Len(seq) + n ELSE 0)

\* the metric names the ranking is asked for: the graphs are all DiGraphs, so
\* 'degree' is the in-degree; any name get_top_nodes has no branch for falls
\* through to return []
Metrics == {"degree", "pagerank"}

\* the breadth-first search of nx.closeness_centrality from one node over
\* graph.reverse(): frontier holds the nodes at distance d, and the result is the
\* number of nodes found (len(sp)) and the sum of their distances (totsp)
RECURSIVE path_lengths(_, _, _, _)
path_lengths(g, seen, frontier, d) ==
    IF frontier = {} THEN [found |-> Cardinality(seen), totsp |-> 0]
    ELSE LET next == {u \in NodeSet(g) \ seen : \E v \in frontier : <<u, v>> \in EdgeSet(g)}
             rest == path_lengths(g, seen \cup next, next, d + 1)
         IN  [found |-> rest.found, totsp |-> d * Cardinality(frontier) + rest.totsp]

\* the closeness of node n (wf_improved): (len(sp) - 1) / totsp, scaled by
\* (len(sp) - 1) / (len(G) - 1); 0 when totsp is 0 or the graph has one node
closeness(g, n) ==
    LET sp == path_lengths(g, {n}, {n}, 0) IN
    IF sp.totsp > 0 /\ Len(g.nodes) > 1
    THEN [num |-> (sp.found - 1) * (sp.found - 1), den |-> sp.totsp * (Len(g.nodes) - 1)]
    ELSE [num |-> 0, den |-> 1]

RECURSIVE product(_)
product(ds) == IF ds = <<>> THEN 1 ELSE Head(ds) * product(Tail(ds))

\* nx.closeness_centrality(graph).items(), in the order of the nodes; the float
\* scores are kept as the integer multiples of 1 / unit they are, unit the product
\* of the denominators
closeness_centrality(g) ==
    LET score == [i \in 1..Len(g.nodes) |-> closeness(g, g.nodes[i])]
        unit == product([i \in 1..Len(g.nodes) |-> score[i].den])
    IN  [i \in 1..Len(g.nodes) |-> <<g.nodes[i], score[i].num * (unit \div score[i].den)>>]

get_top_nodes(g, metric, top_n) ==
    IF Len(g.nodes) = 0 THEN <<>>
    ELSE IF metric = "degree" THEN slice_to(sorted_descending(<<>>, degree_scores(g)), top_n)
    ELSE IF metric = "closeness"
    THEN slice_to(sorted_descending(<<>>, closeness_centrality(g)), top_n)
    ELSE <<>>

\* nx.eigenvector_centrality(graph, max_iter=1000).items() when the power iteration
\* meets the tolerance: one score a node, in the order of the nodes. The iteration
\* is floating-point arithmetic the model does not compute: the scores are any of
\* two levels a node
eigenvector_centrality(g) ==
    {[i \in 1..Len(g.nodes) |-> <<g.nodes[i], level[i]>>] :
        level \in [1..Len(g.nodes) -> 0..1]}

\* ------------------------------------------------ calculate_graph_metrics
\* a float quotient num / den, kept as the pair it is computed from
Fraction(num, den) == [num |-> num, den |-> den]

\* graph.out_degree(): the number of stored edges that start in n
out_degree(g, n) == Cardinality({i \in 1..Len(g.edges) : g.edges[i].source = n})

\* nx.density(graph) of a DiGraph: m / (n * (n - 1)), and 0 when the graph has no
\* edge or at most one node; a self-loop is an edge like any other
density(g) ==
    LET n == Len(g.nodes)
        m == Len(g.edges)
    IN  IF m = 0 \/ n <= 1 THEN Fraction(0, 1) ELSE Fraction(m, n * (n - 1))

\* the neighbours of v in graph.to_undirected()
neighbors(g, v) ==
    {u \in NodeSet(g) : <<u, v>> \in EdgeSet(g) \/ <<v, u>> \in EdgeSet(g)}

\* the nodes an undirected walk reaches from the nodes seen
RECURSIVE reached(_, _)
reached(g, seen) ==
    LET more == seen \cup UNION {neighbors(g, v) : v \in seen}
    IN  IF more = seen THEN seen ELSE reached(g, more)

\* nx.is_weakly_connected(graph), of a graph with a node
is_weakly_connected(g) == reached(g, {g.nodes[1]}) = NodeSet(g)

\* nx.clustering of v in graph.to_undirected(): the links among the neighbours of
\* v (each counted from both ends) over d * (d - 1); self-loops are left out
clustering(g, v) ==
    LET nbrs == neighbors(g, v) \ {v}
        d == Cardinality(nbrs)
        links == {<<w, x>> \in nbrs \X nbrs : x \in neighbors(g, w) \ {w}}
    IN  IF links = {} THEN Fraction(0, 1) ELSE Fraction(Cardinality(links), d * (d - 1))

RECURSIVE sum_fractions(_)
sum_fractions(fs) ==
    IF fs = <<>> THEN Fraction(0, 1)
    ELSE LET h == Head(fs)
             t == sum_fractions(Tail(fs))
         IN  Fraction(h.num * t.den + t.num * h.den, h.den * t.den)

\* nx.average_clustering(graph.to_undirected())
average_clustering(g) ==
    LET total == sum_fractions([i \in 1..Len(g.nodes) |-> clustering(g, g.nodes[i])])
    IN  Fraction(total.num, total.den * Len(g.nodes))

RECURSIVE sum(_)
sum(ds) == IF ds = <<>> THEN 0 ELSE Head(ds) + sum(Tail(ds))

max(ds) == CHOOSE d \in {ds[i] : i \in 1..Len(ds)} : \A i \in 1..Len(ds) : ds[i] <= d

\* the dict calculate_graph_metrics returns: {} for a graph without nodes; the
\* three graphs of the builder are DiGraphs, so the directed branches are taken
calculate_graph_metrics(g) ==
    IF Len(g.nodes) = 0 THEN <<>>
    ELSE LET in_degrees == [i \in 1..Len(g.nodes) |-> in_degree(g, g.nodes[i])]
             out_degrees == [i \in 1..Len(g.nodes) |-> out_degree(g, g.nodes[i])]
         IN  [nodes |-> Len(g.nodes),
              edges |-> Len(g.edges),
              density |-> density(g),
              is_connected |-> is_weakly_connected(g),
              average_clustering |-> average_clustering(g),
              avg_in_degree |-> Fraction(sum(in_degrees), Len(in_degrees)),
              avg_out_degree |-> Fraction(sum(out_degrees), Len(out_degrees)),
              max_in_degree |-> max(in_degrees),
              max_out_degree |-> max(out_degrees)]

\* -------------------------------------------------------- save_graph_data
\* graph.degree(n) of a DiGraph: in-degree plus out-degree, a self-loop counts twice
degree(g, n) == in_degree(g, n) + out_degree(g, n)

\* graph.edges(): the edges node by node in the order of the nodes, and for one
\* node in the order in which its outgoing edges were first added
RECURSIVE edges_view(_, _)
edges_view(g, nodes) ==
    IF nodes = <<>> THEN <<>>
    ELSE SelectSeq(g.edges, LAMBDA e : e.source = Head(nodes)) \o edges_view(g, Tail(nodes))

\* graph_data of save_graph_data, which json.dump writes to the file
graph_data(g) ==
    [nodes |-> [i \in 1..Len(g.nodes) |-> [id |-> g.nodes[i], degree |-> degree(g, g.nodes[i])]],
     edges |-> edges_view(g, g.nodes)]

\* ----------------------------------------------------------- the actions
\* what a build operation hands to its caller: the operation, the batch it read,
\* the graph, and whether the return before it was of the same operation over the
\* same batch
Returned(op, g) ==
    [op |-> op, batch |-> collection, graph |-> g,
     again |-> (ret.op = op /\ ret.batch = collection /\ ret.raised = ""), raised |-> ""]

\* a build operation that ends in an exception hands no graph to its caller
Raised(op, exception) ==
    [op |-> op, batch |-> collection, graph |-> EmptyDiGraph, again |-> FALSE,
     raised |-> exception]

\* store_tweets_in_mongodb(tweets): insert_many appends; an empty list returns early
store_tweets_in_mongodb(tweets) ==
    /\ Len(collection) + Len(tweets) <= MaxDocs
    /\ collection' = IF tweets = <<>> THEN collection ELSE collection \o tweets
    /\ UNCHANGED <<hashtag_graph, mention_graph, user_hashtag_graph, ret, ranking, metrics, outside_builder>>

\* SocialNetworkGraphBuilder(): a new builder with three empty graphs; the graphs
\* the former builder returned stay with their callers
new_builder ==
    /\ hashtag_graph' = EmptyDiGraph
    /\ mention_graph' = EmptyDiGraph
    /\ user_hashtag_graph' = EmptyDiGraph
    /\ UNCHANGED <<collection, ret, ranking, metrics, outside_builder>>

\* the loop that reads the documents ends before the first add_edge, so a KeyError
\* leaves the graph of the builder as it was
build_hashtag_graph ==
    /\ IF raises_KeyError(find_with_hashtags(collection), {"hashtags"})
       THEN /\ hashtag_graph' = hashtag_graph
            /\ ret' = Raised("build_hashtag_graph", "KeyError")
       ELSE /\ hashtag_graph' = built_hashtag_graph(hashtag_graph, collection)
            /\ ret' = Returned("build_hashtag_graph", hashtag_graph')
    /\ UNCHANGED <<collection, mention_graph, user_hashtag_graph, ranking, metrics, outside_builder>>

build_mention_graph ==
    /\ IF raises_KeyError(find_with_mentions(collection), {"author_id", "mentions"})
       THEN /\ mention_graph' = mention_graph
            /\ ret' = Raised("build_mention_graph", "KeyError")
       ELSE /\ mention_graph' = built_mention_graph(mention_graph, collection)
            /\ ret' = Returned("build_mention_graph", mention_graph')
    /\ UNCHANGED <<collection, hashtag_graph, user_hashtag_graph, ranking, metrics, outside_builder>>

build_user_hashtag_graph ==
    /\ IF raises_KeyError(collection, {"author_id", "hashtags"})
       THEN /\ user_hashtag_graph' = user_hashtag_graph
            /\ ret' = Raised("build_user_hashtag_graph", "KeyError")
       ELSE /\ user_hashtag_graph' = built_user_hashtag_graph(user_hashtag_graph, collection)
            /\ ret' = Returned("build_user_hashtag_graph", user_hashtag_graph')
    /\ UNCHANGED <<collection, hashtag_graph, mention_graph, ranking, metrics, outside_builder>>

\* builder.get_top_nodes(graph, metric, top_n) on a graph a build has returned
\* for 'eigenvector' on a graph with a node, nx.eigenvector_centrality either
\* returns scores or, when max_iter iterations did not meet the tolerance, raises
\* PowerIterationFailedConvergence, which get_top_nodes does not catch
top_nodes(g, metric, top_n) ==
    /\ ret.op # "none"
    /\ ret.raised = ""
    /\ IF metric = "eigenvector" /\ Len(g.nodes) # 0
       THEN \E converged \in BOOLEAN, node_scores \in eigenvector_centrality(g) :
                ranking' = [metric |-> metric, top_n |-> top_n, graph |-> g,
                            result |-> IF converged
                                       THEN slice_to(sorted_descending(<<>>, node_scores), top_n)
                                       ELSE <<>>,
                            raised |-> IF converged THEN ""
                                       ELSE "PowerIterationFailedConvergence"]
       ELSE ranking' = [metric |-> metric, top_n |-> top_n, graph |-> g,
                        result |-> get_top_nodes(g, metric, top_n), raised |-> ""]
    /\ UNCHANGED <<collection, hashtag_graph, mention_graph, user_hashtag_graph, ret, metrics, outside_builder>>

\* test_mongodb: collection.insert_one(test_doc); one test runs at a time
insert_test_doc ==
    /\ \A i \in 1..Len(collection) : collection[i] # test_doc
    /\ collection' = Append(collection, test_doc)
    /\ UNCHANGED <<hashtag_graph, mention_graph, user_hashtag_graph, ret, ranking, metrics, outside_builder>>

\* test_mongodb: collection.delete_one({"_id": result.inserted_id})
delete_test_doc ==
    /\ \E i \in 1..Len(collection) : collection[i] = test_doc
    /\ collection' = SelectSeq(collection, LAMBDA t : t # test_doc)
    /\ UNCHANGED <<hashtag_graph, mention_graph, user_hashtag_graph, ret, ranking, metrics, outside_builder>>

\* a plausible slip: graph.remove_edges_from(nx.selfloop_edges(graph)) on the
\* graph of the builder before the clustering is computed
graph_metrics_removes_selfloops(g, graph_name) ==
    LET h == [g EXCEPT !.edges = SelectSeq(g.edges, LAMBDA e : e.source # e.target)] IN
    /\ metrics' = [graph_name |-> graph_name, graph |-> h,
                   result |-> calculate_graph_metrics(h)]
    /\ hashtag_graph' =
           IF graph_name = "Hashtag Co-occurrence Graph" THEN h ELSE hashtag_graph
    /\ mention_graph' = IF graph_name = "User Mention Graph" THEN h ELSE mention_graph
    /\ user_hashtag_graph' =
           IF graph_name = "User-Hashtag Graph" THEN h ELSE user_hashtag_graph
    /\ UNCHANGED <<collection, ret, ranking, outside_builder>>

\* builder.calculate_graph_metrics(graph, graph_name) on a graph of the builder
graph_metrics(g, graph_name) ==
    /\ metrics' = [graph_name |-> graph_name, graph |-> g,
                   result |-> calculate_graph_metrics(g)]
    /\ UNCHANGED <<collection, hashtag_graph, mention_graph, user_hashtag_graph, ret, ranking, outside_builder>>

\* builder.save_graph_data(graph, filename) on a graph of the builder
save_graph_data(g, filename) ==
    /\ saved' = [filename |-> filename, graph |-> g, data |-> graph_data(g)]
    /\ UNCHANGED <<collection, hashtag_graph, mention_graph, user_hashtag_graph, ret, ranking,
                   metrics, pipeline, collector>>

\* ------------------------------------------------------ main() of main.py
\* a plausible slip: --skip-collection honoured for --phase collect too
selects_collection_unless_skipped(phase, skip_collection) ==
    (phase = "collect" \/ phase = "all") /\ ~skip_collection

\* args.phase == "collect" or (args.phase == "all" and not args.skip_collection)
selects_collection(phase, skip_collection) ==
    phase = "collect" \/ (phase = "all" /\ ~skip_collection)

\* args.phase == "analyze" or args.phase == "all"
selects_analysis(phase) == phase = "analyze" \/ phase = "all"

\* args.phase == "visualize" or args.phase == "all"
selects_visualization(phase) == phase = "visualize" \/ phase = "all"

\* a plausible slip: success = success and run_...(), which does not call the phase
\* once a phase has failed
calls_while_successful(success, selected) == success /\ selected

\* success &= run_...() under its if: the selected phase is called whatever
\* success is
calls(success, selected) == selected

\* a plausible slip: success = run_...(), which forgets the phases before
assign(success, result) == result

\* success &= result
and_assign(success, result) == success /\ result

\* the run after the call of a selected phase that returned result
after_phase(name, result, next) ==
    [pipeline EXCEPT !.pc = next,
                     !.ran = Append(@, name),
                     !.failed = IF result THEN @ ELSE @ \cup {name},
                     !.success = and_assign(@, result)]

\* parser.parse_args(): the phase and the flag of this run
main(phase, skip_collection) ==
    /\ pipeline.pc = "idle"
    /\ pipeline' = [NoRun EXCEPT !.pc = "check", !.phase = phase,
                                 !.skip_collection = skip_collection]
    /\ UNCHANGED <<collection, hashtag_graph, mention_graph, user_hashtag_graph, ret, ranking,
                   metrics, saved, collector>>

\* if not check_environment(): sys.exit(1); configured says whether config.py has
\* every Twitter key
check_environment(configured) ==
    /\ pipeline.pc = "check"
    /\ pipeline' = IF configured THEN [pipeline EXCEPT !.pc = "collect"]
                   ELSE [pipeline EXCEPT !.pc = "exited", !.exit = "1"]
    /\ UNCHANGED <<collection, hashtag_graph, mention_graph, user_hashtag_graph, ret, ranking,
                   metrics, saved, collector>>

\* run_data_collection() when selected: it returns True after it has stored the
\* tweets it collected, and False when it collected none or an exception was caught
run_data_collection(result, tweets) ==
    /\ pipeline.pc = "collect"
    /\ IF calls(pipeline.success,
                selects_collection(pipeline.phase, pipeline.skip_collection))
       THEN /\ result => tweets # <<>> /\ Len(collection) + Len(tweets) <= MaxDocs
            /\ ~result => tweets = <<>>
            /\ collection' = collection \o tweets
            /\ pipeline' = after_phase("collect", result, "analyze")
       ELSE /\ tweets = <<>>
            /\ ~result
            /\ collection' = collection
            /\ pipeline' = [pipeline EXCEPT !.pc = "analyze"]
    /\ UNCHANGED <<hashtag_graph, mention_graph, user_hashtag_graph, ret, ranking, metrics,
                   saved, collector>>

\* run_graph_analysis() when selected: a new builder, the three builds, the metrics
\* and the saved data of the three graphs; it returns False when an exception was
\* caught, here the one of a builder that cannot connect or of a build
run_graph_analysis(result) ==
    /\ pipeline.pc = "analyze"
    /\ IF calls(pipeline.success, selects_analysis(pipeline.phase))
       THEN IF result /\ ~raises_KeyError(collection, {"author_id", "hashtags", "mentions"})
            THEN /\ hashtag_graph' = built_hashtag_graph(EmptyDiGraph, collection)
                 /\ mention_graph' = built_mention_graph(EmptyDiGraph, collection)
                 /\ user_hashtag_graph' = built_user_hashtag_graph(EmptyDiGraph, collection)
                 /\ ret' = Returned("build_user_hashtag_graph", user_hashtag_graph')
                 /\ metrics' = [graph_name |-> "User-Hashtag Graph",
                                graph |-> user_hashtag_graph',
                                result |-> calculate_graph_metrics(user_hashtag_graph')]
                 /\ saved' = [filename |-> "user_hashtag_graph.json",
                              graph |-> user_hashtag_graph',
                              data |-> graph_data(user_hashtag_graph')]
                 /\ pipeline' = after_phase("analyze", TRUE, "visualize")
            ELSE /\ pipeline' = after_phase("analyze", FALSE, "visualize")
                 /\ UNCHANGED <<hashtag_graph, mention_graph, user_hashtag_graph, ret, metrics,
                                saved>>
       ELSE /\ ~result
            /\ pipeline' = [pipeline EXCEPT !.pc = "visualize"]
            /\ UNCHANGED <<hashtag_graph, mention_graph, user_hashtag_graph, ret, metrics,
                           saved>>
    /\ UNCHANGED <<collection, ranking, collector>>

\* run_visualization() when selected: it only reads the collection and writes
\* pictures; it returns False when an exception was caught
run_visualization(result) ==
    /\ pipeline.pc = "visualize"
    /\ pipeline' = IF calls(pipeline.success, selects_visualization(pipeline.phase))
                   THEN after_phase("visualize", result, "report")
                   ELSE [pipeline EXCEPT !.pc = "report"]
    /\ UNCHANGED <<collection, hashtag_graph, mention_graph, user_hashtag_graph, ret, ranking,
                   metrics, saved, collector>>

\* if success: generate_report(); then main prints the outcome and returns
generate_report ==
    /\ pipeline.pc = "report"
    /\ pipeline' = [pipeline EXCEPT !.pc = "done", !.exit = "0",
                                    !.reports = IF pipeline.success THEN @ + 1 ELSE @]
    /\ UNCHANGED <<collection, hashtag_graph, mention_graph, user_hashtag_graph, ret, ranking,
                   metrics, saved, collector>>

\* ------------------------------------ collect_tweets_by_hashtags
\* the counts of tweet.public_metrics, and the thresholds of DATA_CONFIG
Counts == {0, 1}
Thresholds == {1, 2}

\* DATA_CONFIG['hashtags'] with k hashtags
configured_hashtags(k) == [i \in 1..k |-> IF i % 2 = 1 THEN "#a" ELSE "#b"]

\* tweet.public_metrics of a tweet the search returns
PublicMetrics == [retweet_count : Counts, like_count : Counts]

\* the fields of tweet_doc the collection loop decides on; the other fields are
\* copied from the tweet and never read by the loop
tweet_doc(public_metrics, hashtag) ==
    [retweet_count |-> public_metrics.retweet_count,
     like_count |-> public_metrics.like_count,
     source_hashtag |-> hashtag]

\* tweet_doc['retweet_count'] >= DATA_CONFIG['min_retweets'] or
\* tweet_doc['like_count'] >= DATA_CONFIG['min_likes']
meets_engagement_criteria(doc, min_retweets, min_likes) ==
    doc.retweet_count >= min_retweets \/ doc.like_count >= min_likes

\* a plausible slip: the tweets gathered before the error are kept (a finally:
\* all_tweets.extend(hashtag_tweets))
except_extend(all_tweets, hashtag_tweets) == all_tweets \o hashtag_tweets

\* except Exception: continue; all_tweets is what it was before this hashtag
except_continue(all_tweets, hashtag_tweets) == all_tweets

\* all_tweets = []; DATA_CONFIG is read: the hashtags and the two thresholds
collect_tweets_by_hashtags(hashtags, min_retweets, min_likes) ==
    /\ collector.pc = "idle"
    /\ collector' = [NoCollector EXCEPT !.pc = "for", !.hashtags = hashtags,
                                        !.min_retweets = min_retweets,
                                        !.min_likes = min_likes]
    /\ UNCHANGED <<collection, hashtag_graph, mention_graph, user_hashtag_graph, ret, ranking,
                   metrics, saved, pipeline>>

\* for hashtag in DATA_CONFIG['hashtags']: try: the lazy Paginator is made and
\* hashtag_tweets = []
next_hashtag ==
    /\ collector.pc = "for"
    /\ collector.hashtag < Len(collector.hashtags)
    /\ collector' = [collector EXCEPT !.pc = "try", !.hashtag = @ + 1,
                                      !.hashtag_tweets = <<>>]
    /\ UNCHANGED <<collection, hashtag_graph, mention_graph, user_hashtag_graph, ret, ranking,
                   metrics, saved, pipeline>>

\* for tweet in tweets: the search returns one more tweet; its tweet_doc is appended
\* to hashtag_tweets when it meets the engagement criteria. seen is the history of
\* the tweets returned: the hashtag position, the document, whether it was appended
next_tweet(public_metrics) ==
    /\ collector.pc = "try"
    /\ Len(collector.seen) < MaxFetched
    /\ LET doc == tweet_doc(public_metrics, collector.hashtags[collector.hashtag])
           gathered == meets_engagement_criteria(doc, collector.min_retweets,
                                                 collector.min_likes)
       IN collector' = [collector EXCEPT
              !.hashtag_tweets = IF gathered THEN Append(@, doc) ELSE @,
              !.seen = Append(@, [at |-> collector.hashtag, doc |-> doc,
                                  gathered |-> gathered])]
    /\ UNCHANGED <<collection, hashtag_graph, mention_graph, user_hashtag_graph, ret, ranking,
                   metrics, saved, pipeline>>

\* the search is exhausted: all_tweets.extend(hashtag_tweets); time.sleep(1)
extend_all_tweets ==
    /\ collector.pc = "try"
    /\ collector' = [collector EXCEPT !.pc = "for",
                                      !.all_tweets = @ \o collector.hashtag_tweets,
                                      !.completed = @ \cup {collector.hashtag}]
    /\ UNCHANGED <<collection, hashtag_graph, mention_graph, user_hashtag_graph, ret, ranking,
                   metrics, saved, pipeline>>

\* the search raises (rate limit, network, a tweet without public_metrics):
\* except Exception: continue
except_Exception ==
    /\ collector.pc = "try"
    /\ collector' = [collector EXCEPT !.pc = "for",
                                      !.all_tweets = except_continue(@, collector.hashtag_tweets),
                                      !.errors = @ \cup {collector.hashtag}]
    /\ UNCHANGED <<collection, hashtag_graph, mention_graph, user_hashtag_graph, ret, ranking,
                   metrics, saved, pipeline>>

\* the loop is over: return all_tweets
return_all_tweets ==
    /\ collector.pc = "for"
    /\ collector.hashtag = Len(collector.hashtags)
    /\ collector' = [collector EXCEPT !.pc = "returned"]
    /\ UNCHANGED <<collection, hashtag_graph, mention_graph, user_hashtag_graph, ret, ranking,
                   metrics, saved, pipeline>>

\* ------------------------------------------------------ specifications
Init ==
    /\ collection = <<>>
    /\ hashtag_graph = EmptyDiGraph
    /\ mention_graph = EmptyDiGraph
    /\ user_hashtag_graph = EmptyDiGraph
    /\ ret = NoReturn
    /\ ranking = NoRanking
    /\ metrics = NoMetrics
    /\ Idle

\* documents that carry hashtags only
HashtagTweets == {Tweet("u1", h, <<>>) : h \in SeqsUpTo(Hashtags, MaxTags)}

NextHashtag ==
    \/ \E tweets \in SeqsUpTo(HashtagTweets, 1) : store_tweets_in_mongodb(tweets)
    \/ new_builder
    \/ build_hashtag_graph

SpecHashtag == Init /\ [][NextHashtag]_vars

\* documents that carry mentions only
MentionTweets == {Tweet(a, <<>>, m) : a \in Users, m \in SeqsUpTo(MentionTokens, MaxMentions)}

NextMention ==
    \/ \E tweets \in SeqsUpTo(MentionTweets, 1) : store_tweets_in_mongodb(tweets)
    \/ new_builder
    \/ build_mention_graph

SpecMention == Init /\ [][NextMention]_vars

\* documents of both authors that carry hashtags only
UserHashtagTweets == {Tweet(a, h, <<>>) : a \in Users, h \in SeqsUpTo(Hashtags, MaxTags)}

NextUserHashtag ==
    \/ \E tweets \in SeqsUpTo(UserHashtagTweets, 1) : store_tweets_in_mongodb(tweets)
    \/ new_builder
    \/ build_user_hashtag_graph

SpecUserHashtag == Init /\ [][NextUserHashtag]_vars

\* documents for the three builds side by side: each author with every combination
\* of these hashtag lists (none, a pair, the pair reversed with a repeat) and
\* mention lists (none, a mention of u1 next to a repeated mention of u2)
SampleHashtags == {<<>>, <<"#a", "#b">>, <<"#b", "#a", "#a">>}

SampleMentions == {<<>>, <<"@u1", "@u2", "@u2">>}

Tweets == {Tweet(a, h, m) : a \in Users, h \in SampleHashtags, m \in SampleMentions}

Next ==
    \/ \E tweets \in SeqsUpTo(Tweets, 1) : store_tweets_in_mongodb(tweets)
    \/ new_builder
    \/ build_hashtag_graph
    \/ build_mention_graph
    \/ build_user_hashtag_graph

Spec == Init /\ [][Next]_vars

\* one builder whose builds are run again as the collection grows
NextRebuild ==
    \/ \E tweets \in SeqsUpTo(Tweets, 1) : store_tweets_in_mongodb(tweets)
    \/ build_hashtag_graph
    \/ build_mention_graph
    \/ build_user_hashtag_graph

SpecRebuild == Init /\ [][NextRebuild]_vars

\* rankings of the mention graph of a collection that data collection has filled
InitRanking ==
    /\ collection \in SeqsUpTo(MentionTweets, MaxDocs)
    /\ hashtag_graph = EmptyDiGraph
    /\ mention_graph = EmptyDiGraph
    /\ user_hashtag_graph = EmptyDiGraph
    /\ ret = NoReturn
    /\ ranking = NoRanking
    /\ metrics = NoMetrics
    /\ Idle

NextRanking ==
    \/ build_mention_graph
    \/ \E metric \in Metrics, top_n \in (-MaxTopN)..MaxTopN :
           top_nodes(ret.graph, metric, top_n)

SpecRanking == InitRanking /\ [][NextRanking]_vars

\* rankings of the mention graph of a collection in which u1 and u2 mention each
\* other, one mention a document
ScenarioTweets == {Tweet("u1", <<>>, <<"@u2">>), Tweet("u2", <<>>, <<"@u1">>)}

InitScenario ==
    /\ collection \in SeqsUpTo(ScenarioTweets, ScenarioDocs)
    /\ hashtag_graph = EmptyDiGraph
    /\ mention_graph = EmptyDiGraph
    /\ user_hashtag_graph = EmptyDiGraph
    /\ ret = NoReturn
    /\ ranking = NoRanking
    /\ metrics = NoMetrics
    /\ Idle

SpecScenario == InitScenario /\ [][NextRanking]_vars

\* eigenvector rankings of the mention graph of a collection of three users who
\* mention themselves and the next user
EigenvectorTweets ==
    {Tweet("u1", <<>>, <<"@u1", "@u2">>), Tweet("u2", <<>>, <<"@u2", "@u3">>),
     Tweet("u3", <<>>, <<"@u3">>)}

InitEigenvector ==
    /\ collection \in SeqsUpTo(EigenvectorTweets, ScenarioDocs)
    /\ hashtag_graph = EmptyDiGraph
    /\ mention_graph = EmptyDiGraph
    /\ user_hashtag_graph = EmptyDiGraph
    /\ ret = NoReturn
    /\ ranking = NoRanking
    /\ metrics = NoMetrics
    /\ Idle

NextEigenvector ==
    \/ build_mention_graph
    \/ \E top_n \in (-MaxTopN)..MaxTopN : top_nodes(ret.graph, "eigenvector", top_n)

SpecEigenvector == InitEigenvector /\ [][NextEigenvector]_vars

\* degree rankings of the mention graph of the same collections: up to three nodes
\* with in-degrees 1, 2 and 2
NextThreeUsers ==
    \/ build_mention_graph
    \/ \E top_n \in (-MaxTopN)..MaxTopN : top_nodes(ret.graph, "degree", top_n)

SpecThreeUsers == InitEigenvector /\ [][NextThreeUsers]_vars

\* the connection test runs next to data collection and the builds of one builder
NextTestDoc ==
    \/ \E tweets \in SeqsUpTo(Tweets, 1) : store_tweets_in_mongodb(tweets)
    \/ insert_test_doc
    \/ delete_test_doc
    \/ build_hashtag_graph
    \/ build_mention_graph
    \/ build_user_hashtag_graph

SpecTestDoc == Init /\ [][NextTestDoc]_vars

\* the metrics of the three graphs of a builder over a collection that data
\* collection has filled
InitMetrics ==
    /\ collection \in SeqsUpTo(Tweets, MaxDocs)
    /\ hashtag_graph = EmptyDiGraph
    /\ mention_graph = EmptyDiGraph
    /\ user_hashtag_graph = EmptyDiGraph
    /\ ret = NoReturn
    /\ ranking = NoRanking
    /\ metrics = NoMetrics
    /\ Idle

NextMetrics ==
    \/ build_hashtag_graph
    \/ build_mention_graph
    \/ build_user_hashtag_graph
    \/ graph_metrics(hashtag_graph, "Hashtag Co-occurrence Graph")
    \/ graph_metrics(mention_graph, "User Mention Graph")
    \/ graph_metrics(user_hashtag_graph, "User-Hashtag Graph")

SpecMetrics == InitMetrics /\ [][NextMetrics]_vars

\* closeness rankings of the mention graphs of the scenario collections
NextCloseness ==
    \/ build_mention_graph
    \/ \E top_n \in (-MaxTopN)..MaxTopN : top_nodes(ret.graph, "closeness", top_n)

SpecCloseness == InitScenario /\ [][NextCloseness]_vars

\* documents of two authors, one of whom has an id that is also a hashtag token
SameTokenTweets == {Tweet(a, h, <<>>) : a \in {"u1", "#a"}, h \in SeqsUpTo(Hashtags, 1)}

NextSameToken ==
    \/ \E tweets \in SeqsUpTo(SameTokenTweets, 1) : store_tweets_in_mongodb(tweets)
    \/ new_builder
    \/ build_user_hashtag_graph

SpecSameToken == Init /\ [][NextSameToken]_vars

\* main() of graph_builder.py after the collection is filled: the three builds,
\* then the metrics, the degree rankings and the saved data of their graphs
InitDownstream ==
    /\ collection \in SeqsUpTo(Tweets, 1)
    /\ hashtag_graph = EmptyDiGraph
    /\ mention_graph = EmptyDiGraph
    /\ user_hashtag_graph = EmptyDiGraph
    /\ ret = NoReturn
    /\ ranking = NoRanking
    /\ metrics = NoMetrics
    /\ Idle

NextDownstream ==
    \/ build_hashtag_graph
    \/ build_mention_graph
    \/ build_user_hashtag_graph
    \/ graph_metrics(hashtag_graph, "Hashtag Co-occurrence Graph")
    \/ graph_metrics(mention_graph, "User Mention Graph")
    \/ graph_metrics(user_hashtag_graph, "User-Hashtag Graph")
    \/ top_nodes(hashtag_graph, "degree", MaxTopN)
    \/ top_nodes(mention_graph, "degree", MaxTopN)
    \/ save_graph_data(hashtag_graph, "hashtag_graph.json")
    \/ save_graph_data(mention_graph, "mention_graph.json")
    \/ save_graph_data(user_hashtag_graph, "user_hashtag_graph.json")

SpecDownstream == InitDownstream /\ [][NextDownstream]_vars

\* one run of main() of main.py over a collection that holds up to one document
Phases == {"collect", "analyze", "visualize", "all"}

NextPipeline ==
    \/ \E phase \in Phases, skip_collection \in BOOLEAN : main(phase, skip_collection)
    \/ \E configured \in BOOLEAN : check_environment(configured)
    \/ \E result \in BOOLEAN, tweets \in SeqsUpTo(Tweets, 1) :
           run_data_collection(result, tweets)
    \/ \E result \in BOOLEAN : run_graph_analysis(result)
    \/ \E result \in BOOLEAN : run_visualization(result)
    \/ generate_report

SpecPipeline == InitDownstream /\ [][NextPipeline]_vars

NextCollector ==
    \/ \E k \in 0..MaxHashtags, min_retweets \in Thresholds, min_likes \in Thresholds :
          collect_tweets_by_hashtags(configured_hashtags(k), min_retweets, min_likes)
    \/ next_hashtag
    \/ \E public_metrics \in PublicMetrics : next_tweet(public_metrics)
    \/ extend_all_tweets
    \/ except_Exception
    \/ return_all_tweets

SpecCollector == Init /\ [][NextCollector]_vars

\* ------------------------------------------------------------ the claims
Range(seq) == {seq[i] : i \in 1..Len(seq)}

RECURSIVE SumOver(_, _)
SumOver(f, S) ==
    IF S = {} THEN 0 ELSE LET x == CHOOSE y \in S : TRUE IN f[x] + SumOver(f, S \ {x})

\* the weight the graph stores for the unordered pair {a, b}; 0 when it stores none
PairWeight(g, a, b) ==
    IF <<a, b>> \in EdgeSet(g) THEN Weight(g, a, b)
    ELSE IF <<b, a>> \in EdgeSet(g) THEN Weight(g, b, a)
    ELSE 0

\* the weight the graph stores for the directed edge (u, v); 0 when it stores none
EdgeWeight(g, u, v) == IF <<u, v>> \in EdgeSet(g) THEN Weight(g, u, v) ELSE 0

\* the documents of the batch whose hashtag list holds both a and b
DocsWithBoth(batch, a, b) ==
    {i \in 1..Len(batch) : a \in Range(batch[i].hashtags) /\ b \in Range(batch[i].hashtags)}

\* C1: in the graph build_hashtag_graph returns, an unordered pair {a, b} of
\* distinct hashtags is one edge entry: (a, b) and (b, a) are never both stored.
C1_OneEntryPerPair ==
    ret.op = "build_hashtag_graph" =>
        \A e \in EdgeSet(ret.graph) :
            e[1] # e[2] => <<e[2], e[1]>> \notin EdgeSet(ret.graph)

\* C2: the weight of the co-occurrence edge {a, b}, a # b, is the number of
\* documents of the batch whose hashtag list holds both a and b, also when a
\* document repeats a hashtag.
C2_WeightCountsDocuments ==
    ret.op = "build_hashtag_graph" =>
        \A a \in Hashtags, b \in Hashtags :
            a # b => PairWeight(ret.graph, a, b) = Cardinality(DocsWithBoth(ret.batch, a, b))

\* C3: the co-occurrence graph has no self-loop (a, a), and every edge it stores
\* comes from a document with both (distinct) endpoints in its hashtag list.
C3_NoSelfLoop ==
    ret.op = "build_hashtag_graph" =>
        \A e \in EdgeSet(ret.graph) :
            /\ e[1] # e[2]
            /\ DocsWithBoth(ret.batch, e[1], e[2]) # {}

\* C4: the weight of the mention edge (author, target) is the number of documents
\* by that author that mention that target, also when one document names the
\* target more than once.
C4_MentionWeightCountsDocuments ==
    ret.op = "build_mention_graph" =>
        \A a \in Users, t \in Users :
            EdgeWeight(ret.graph, a, t) =
                Cardinality({i \in 1..Len(ret.batch) :
                    /\ ret.batch[i].author_id = a
                    /\ t \in {replace_at(m) : m \in Range(ret.batch[i].mentions)}})

\* C5: the weight of the association edge (author, hashtag) is the number of
\* documents by that author that use that hashtag, also when one document repeats
\* the hashtag.
C5_UserHashtagWeightCountsDocuments ==
    ret.op = "build_user_hashtag_graph" =>
        \A a \in Users, h \in Hashtags :
            EdgeWeight(ret.graph, a, h) =
                Cardinality({i \in 1..Len(ret.batch) :
                    /\ ret.batch[i].author_id = a
                    /\ h \in Range(ret.batch[i].hashtags)})

\* C6: the sum of the weights of all edges the co-occurrence graph stores is the
\* total, over the documents, of k * (k - 1) / 2 for a document with k distinct
\* hashtags.
C6_WeightSumIsPairings ==
    ret.op = "build_hashtag_graph" =>
        LET E == EdgeSet(ret.graph)
            w == [e \in E |-> Weight(ret.graph, e[1], e[2])]
            D == 1..Len(ret.batch)
            pairings == [i \in D |->
                LET k == Cardinality(Range(ret.batch[i].hashtags)) IN (k * (k - 1)) \div 2]
        IN SumOver(w, E) = SumOver(pairings, D)

\* the graph of the live builder that a build operation fills
GraphOf(op) ==
    CASE op = "build_hashtag_graph" -> hashtag_graph
      [] op = "build_mention_graph" -> mention_graph
      [] op = "build_user_hashtag_graph" -> user_hashtag_graph

\* what a builder that has built nothing before returns for a batch
FreshBuild(op, batch) ==
    CASE op = "build_hashtag_graph" -> built_hashtag_graph(EmptyDiGraph, batch)
      [] op = "build_mention_graph" -> built_mention_graph(EmptyDiGraph, batch)
      [] op = "build_user_hashtag_graph" -> built_user_hashtag_graph(EmptyDiGraph, batch)

Builds == {"build_hashtag_graph", "build_mention_graph", "build_user_hashtag_graph"}

\* with one builder, the graph of op has been returned to a caller when op was the
\* latest build or has left edges in it
Handed(op) == ret.op = op \/ GraphOf(op) # EmptyDiGraph

\* C7: once a build operation has returned a graph, a later build on the same
\* builder leaves that graph's nodes, edges and weights unchanged, and the graph
\* the later build returns holds only nodes and edges derived from its own batch.
C7_ReturnedGraphIsFrozen ==
    [][/\ \A op \in Builds : Handed(op) => GraphOf(op)' = GraphOf(op)
       /\ ret'.op \in Builds =>
              /\ NodeSet(ret'.graph) = NodeSet(FreshBuild(ret'.op, ret'.batch))
              /\ EdgeWeights(ret'.graph) = EdgeWeights(FreshBuild(ret'.op, ret'.batch))]_vars

\* C8: a build run again over the unchanged batch, on the same builder or on a new
\* one, returns the graph the run before it returned: no edge is added and no
\* weight changes.
C8_RerunIsIdentical ==
    [][ret'.again =>
          /\ EdgeWeights(ret'.graph) = EdgeWeights(ret.graph)
          /\ ret'.graph = ret.graph]_vars

C8_Witness == ret.again /\ ret.graph.edges # <<>>

\* the pass of a build operation that counts the edges of a batch
Aggregate(op, batch) ==
    CASE op = "build_hashtag_graph" -> hashtag_pairs(<<>>, find_with_hashtags(batch))
      [] op = "build_mention_graph" -> mention_edges(<<>>, find_with_mentions(batch))
      [] op = "build_user_hashtag_graph" -> user_hashtag_edges(<<>>, batch)

\* a partial edge-weight map: edge -> weight
PartialMap(op, batch) ==
    LET d == Aggregate(op, batch) IN [k \in Keys(d) |-> Get(d, k)]

\* the merge of two partial maps: the sum of the weights, edge by edge
Merge(f, g) ==
    [k \in DOMAIN f \cup DOMAIN g |->
        (IF k \in DOMAIN f THEN f[k] ELSE 0) + (IF k \in DOMAIN g THEN g[k] ELSE 0)]

\* the merge of the partial maps of the partitions of batch from position start,
\* where cuts holds the positions after which a partition ends
RECURSIVE MergedFrom(_, _, _, _)
MergedFrom(op, batch, start, cuts) ==
    IF start > Len(batch) THEN [k \in {} |-> 0]
    ELSE LET later == {c \in cuts : c >= start}
             end == IF later = {} THEN Len(batch)
                    ELSE CHOOSE c \in later : \A c2 \in later : c <= c2
         IN Merge(PartialMap(op, SubSeq(batch, start, end)),
                  MergedFrom(op, batch, end + 1, cuts))

\* the partial maps of the single documents of batch, and of the whole batch
Partials(op, batch) ==
    {PartialMap(op, <<batch[i]>>) : i \in 1..Len(batch)} \cup {PartialMap(op, batch)}

\* C9: for every split of the batch into consecutive partitions, merging the
\* partial edge-weight maps of the partitions by per-edge sum gives the map of one
\* pass over the whole batch (for the directed graphs, the weights the built
\* graph stores), and the merge is associative and commutative.
C9_MergeOfPartitions ==
    ret.op \in Builds =>
        LET whole == PartialMap(ret.op, ret.batch)
            parts == Partials(ret.op, ret.batch)
        IN /\ \A cuts \in SUBSET (1..(Len(ret.batch) - 1)) :
                  MergedFrom(ret.op, ret.batch, 1, cuts) = whole
           /\ ret.op # "build_hashtag_graph" =>
                  {<<k, whole[k]>> : k \in DOMAIN whole} = EdgeWeights(ret.graph)
           /\ \A f \in parts, g \in parts :
                  /\ Merge(f, g) = Merge(g, f)
                  /\ \A h \in parts : Merge(Merge(f, g), h) = Merge(f, Merge(g, h))

\* a batch of two documents that both count the same edge has been built
C9_Witness ==
    /\ ret.op \in Builds
    /\ Len(ret.batch) >= 2
    /\ \E k \in DOMAIN PartialMap(ret.op, ret.batch) :
           /\ k \in DOMAIN PartialMap(ret.op, SubSeq(ret.batch, 1, 1))
           /\ k \in DOMAIN PartialMap(ret.op, SubSeq(ret.batch, 2, Len(ret.batch)))

IsPrefix(s, t) == Len(s) <= Len(t) /\ SubSeq(t, 1, Len(s)) = s

\* C10: for every graph, metric and integer k, the ranking get_top_nodes returns
\* with top_n = k is a prefix of the one it returns with top_n = k + 1.
C10_TopNPrefix ==
    ranking.metric # "none" =>
        IsPrefix(ranking.result,
                 get_top_nodes(ranking.graph, ranking.metric, ranking.top_n + 1))

Min(a, b) == IF a <= b THEN a ELSE b

Max(a, b) == IF a >= b THEN a ELSE b

\* the node ids of a ranking, in its order
RankedNodes(result) == [i \in 1..Len(result) |-> result[i][1]]

\* C11: a degree ranking asked for top_n entries has min(max(top_n, 0), node
\* count) entries: none when top_n <= 0, and every node exactly once when top_n
\* is larger than the node count.
C11_TopNLength ==
    ranking.metric = "degree" =>
        LET count == Len(ranking.graph.nodes) IN
        /\ Len(ranking.result) = Min(Max(ranking.top_n, 0), count)
        /\ ranking.top_n > count =>
               /\ Range(RankedNodes(ranking.result)) = NodeSet(ranking.graph)
               /\ Len(ranking.result) = Cardinality(NodeSet(ranking.graph))

\* the position of node n in the order of first insertion into g
NodeIndex(g, n) == CHOOSE i \in 1..Len(g.nodes) : g.nodes[i] = n

\* C12: a degree ranking is ordered by non-increasing score, and entries of equal
\* score are in the order in which their nodes were first inserted into the graph
\* (so the ranking is determined by the graph, the metric and top_n).
C12_StableDescending ==
    ranking.metric = "degree" =>
        \A i \in 1..Len(ranking.result), j \in 1..Len(ranking.result) :
            i < j =>
                /\ ranking.result[i][2] >= ranking.result[j][2]
                /\ ranking.result[i][2] = ranking.result[j][2] =>
                       NodeIndex(ranking.graph, ranking.result[i][1])
                           < NodeIndex(ranking.graph, ranking.result[j][1])

\* a degree ranking whose first two entries have the same score
C12_Witness ==
    /\ ranking.metric = "degree"
    /\ Len(ranking.result) >= 2
    /\ ranking.result[1][2] = ranking.result[2][2]

\* the number of edges of g that end in n
IncomingEdges(g, n) == Cardinality({e \in EdgeSet(g) : e[2] = n})

\* u1 mentions u2 in two documents, and u2 mentions u1 in one document
Scenario ==
    <<Tweet("u1", <<>>, <<"@u2">>), Tweet("u1", <<>>, <<"@u2">>), Tweet("u2", <<>>, <<"@u1">>)>>

\* the degree ranking with n = 1 of the mention graph of the scenario
ScenarioRanked ==
    /\ ret.op = "build_mention_graph"
    /\ ret.batch = Scenario
    /\ ranking.metric = "degree"
    /\ ranking.top_n = 1
    /\ ranking.graph = ret.graph

\* C13 as stated: on the mention graph of the scenario the in-degree of u1 is 1 and
\* of u2 is 2, and the degree ranking with n = 1 is [(u2, 2)].
C13_ScenarioWeightedInDegree ==
    ScenarioRanked =>
        /\ in_degree(ranking.graph, "u1") = 1
        /\ in_degree(ranking.graph, "u2") = 2
        /\ ranking.result = <<(<<"u2", 2>>)>>

\* C13, amended: on the mention graph of the scenario the in-degree of u1 and of
\* u2 is 1 (one incoming edge each, whatever its weight), and the degree ranking
\* with n = 1 is [(u1, 1)], the first inserted of the two; in general a degree
\* ranking scores every node by the number of its incoming edges, and its first
\* entry has the highest in-degree of the graph.
C13_ScenarioInDegree ==
    /\ ScenarioRanked =>
           /\ in_degree(ranking.graph, "u1") = 1
           /\ in_degree(ranking.graph, "u2") = 1
           /\ ranking.result = <<(<<"u1", 1>>)>>
    /\ ranking.metric = "degree" =>
           /\ \A i \in 1..Len(ranking.result) :
                  ranking.result[i][2] = IncomingEdges(ranking.graph, ranking.result[i][1])
           /\ ranking.result # <<>> /\ ranking.top_n >= 1 =>
                  \A n \in NodeSet(ranking.graph) :
                      ranking.result[1][2] >= IncomingEdges(ranking.graph, n)

C13_Witness == ScenarioRanked /\ Len(ranking.result) = 1

\* the metric names get_top_nodes has a branch for
KnownMetrics == {"degree", "betweenness", "closeness", "eigenvector"}

\* C14: a ranking asked for a metric that is none of the known ones is rejected
\* with an error: what the caller gets differs from the empty ranking a valid
\* request (top_n = 0) returns.
C14_UnknownMetricRejected ==
    ranking.metric \notin KnownMetrics \cup {"none"} =>
        \/ ranking.raised # ""
        \/ ranking.result # get_top_nodes(ranking.graph, "degree", 0)

\* the keys of the metrics record of a directed graph
MetricsKeys ==
    {"nodes", "edges", "density", "is_connected", "average_clustering",
     "avg_in_degree", "avg_out_degree", "max_in_degree", "max_out_degree"}

\* C15: calculate_graph_metrics on a graph without nodes returns the full metrics
\* record (node count, edge count, density, connectivity, clustering, degree
\* statistics), with every numeric statistic equal to 0.
C15_EmptyGraphMetrics ==
    metrics.graph_name # "none" /\ Len(metrics.graph.nodes) = 0 =>
        /\ DOMAIN metrics.result = MetricsKeys
        /\ metrics.result.nodes = 0
        /\ metrics.result.edges = 0
        /\ metrics.result.density.num = 0
        /\ metrics.result.average_clustering.num = 0
        /\ metrics.result.avg_in_degree.num = 0
        /\ metrics.result.avg_out_degree.num = 0
        /\ metrics.result.max_in_degree = 0
        /\ metrics.result.max_out_degree = 0

\* C16: the density calculate_graph_metrics reports lies between 0 and 1 for every
\* graph the builds produce, with self-mentions and repeated hashtags too, and is
\* 0 when the graph has fewer than 2 nodes.
C16_DensityInUnitInterval ==
    metrics.graph_name # "none" /\ Len(metrics.graph.nodes) >= 1 =>
        LET d == metrics.result.density IN
        /\ 0 <= d.num
        /\ d.num <= d.den
        /\ Len(metrics.graph.nodes) < 2 => d.num = 0

\* the unordered pairs of distinct hashtags that some document of the batch holds
CoOccurringPairs(batch) ==
    {{a, b} : <<a, b>> \in {p \in Hashtags \X Hashtags :
                               p[1] # p[2] /\ DocsWithBoth(batch, p[1], p[2]) # {}}}

\* C17: for a co-occurrence graph with n >= 2 nodes the reported edge count is the
\* number P of distinct unordered co-occurring pairs and the density is
\* P / (n (n - 1) / 2); for the directed graphs with n >= 2 nodes the density is
\* E / (n (n - 1)), E the number of directed edges.
C17_EdgeCountAndDensity ==
    metrics.graph_name # "none" /\ Len(metrics.graph.nodes) >= 2 =>
        LET n == Len(metrics.graph.nodes)
            d == metrics.result.density
            P == Cardinality(CoOccurringPairs(collection))
            E == Cardinality(EdgeSet(metrics.graph))
        IN  IF metrics.graph_name = "Hashtag Co-occurrence Graph"
            THEN /\ metrics.result.edges = P
                 /\ d.num * n * (n - 1) = 2 * P * d.den
            ELSE d.num * n * (n - 1) = E * d.den

\* the documents of the batch that have the fields of a tweet
WellFormed(batch) ==
    SelectSeq(batch, LAMBDA t : {"author_id", "hashtags", "mentions"} \subseteq DOMAIN t)

\* C18: a build over a batch that holds a malformed document (here one without
\* author_id, hashtags and mentions) skips that document and still returns the
\* graph of the well-formed documents: the build does not end in an exception.
C18_MalformedDocumentSkipped ==
    ret.op \in Builds /\ WellFormed(ret.batch) # ret.batch =>
        /\ ret.raised = ""
        /\ EdgeWeights(FreshBuild(ret.op, WellFormed(ret.batch))) \subseteq EdgeWeights(ret.graph)

\* C19: an eigenvector ranking whose power iteration reaches the cap of 1000
\* iterations without meeting the tolerance still returns a result; it never ends
\* in an exception.
C19_NonConvergenceFlagged ==
    ranking.metric = "eigenvector" => ranking.raised = ""

\* the nodes that are the source or the target of a stored edge
Endpoints(g) == {e[1] : e \in EdgeSet(g)} \cup {e[2] : e \in EdgeSet(g)}

\* C20: in every graph a build returns the nodes are the endpoints of the stored
\* edges: no node is isolated, so an author without hashtags or mentions and a
\* hashtag that never co-occurs with another are not nodes.
C20_NodesAreEndpoints ==
    ret.op \in Builds /\ ret.raised = "" => NodeSet(ret.graph) = Endpoints(ret.graph)

\* a user-hashtag graph with a node, returned for a batch in which an author has a
\* document without hashtags and is no node
C20_Witness ==
    /\ ret.op = "build_user_hashtag_graph"
    /\ ret.graph.nodes # <<>>
    /\ \E i \in 1..Len(ret.batch) :
           /\ ret.batch[i].hashtags = <<>>
           /\ ret.batch[i].author_id \notin NodeSet(ret.graph)

\* C21: every edge of a graph a build returns has an integer weight of at least 1;
\* no edge is stored with weight 0.
C21_WeightAtLeastOne ==
    ret.op \in Builds /\ ret.raised = "" =>
        \A i \in 1..Len(ret.graph.edges) :
            ret.graph.edges[i].weight \in Nat /\ ret.graph.edges[i].weight >= 1

\* a returned graph with an edge of weight 1 and an edge of a larger weight
C21_Witness ==
    /\ ret.op \in Builds
    /\ \E i \in 1..Len(ret.graph.edges) : ret.graph.edges[i].weight = 1
    /\ \E i \in 1..Len(ret.graph.edges) : ret.graph.edges[i].weight > 1

\* the hashtags other than a that the co-occurrence graph g links with a
CoOccurringWith(g, a) ==
    {b \in NodeSet(g) \ {a} : <<a, b>> \in EdgeSet(g) \/ <<b, a>> \in EdgeSet(g)}

\* C22: the data save_graph_data writes has one node record a node, whose degree
\* is the degree of the node, and one edge record a stored edge, with the stored
\* weight, in insertion order; for the co-occurrence graph every unordered pair is
\* written once, and the degree of a hashtag is the number of distinct hashtags it
\* co-occurs with.
C22_ExportOncePerPair ==
    saved.filename # "none" =>
        LET g == saved.graph
            d == saved.data
        IN  /\ [i \in 1..Len(d.nodes) |-> d.nodes[i].id] = g.nodes
            /\ d.edges = g.edges
            /\ saved.filename = "hashtag_graph.json" =>
                   /\ \A i \in 1..Len(d.edges), j \in 1..Len(d.edges) :
                          i # j => {d.edges[i].source, d.edges[i].target}
                                      # {d.edges[j].source, d.edges[j].target}
                   /\ \A i \in 1..Len(d.nodes) :
                          d.nodes[i].degree = Cardinality(CoOccurringWith(g, d.nodes[i].id))

\* C24: calculate_graph_metrics, get_top_nodes and save_graph_data leave the graphs
\* unchanged: a step of one of them changes neither the nodes, the edges, the
\* weights nor the insertion order of a graph of the builder or of the graph a
\* build returned.
C24_DownstreamLeavesGraphs ==
    [][(metrics' # metrics \/ ranking' # ranking \/ saved' # saved) =>
           /\ hashtag_graph' = hashtag_graph
           /\ mention_graph' = mention_graph
           /\ user_hashtag_graph' = user_hashtag_graph
           /\ ret'.graph = ret.graph]_vars

\* the three operations have each been applied to a graph with a self-loop
C24_Witness ==
    /\ \E e \in EdgeSet(metrics.graph) : e[1] = e[2]
    /\ \E e \in EdgeSet(ranking.graph) : e[1] = e[2]
    /\ \E e \in EdgeSet(saved.graph) : e[1] = e[2]

\* C23: the user-hashtag graph is directed bipartite: every edge goes from an
\* author of the batch to a hashtag, and no node is the source of one edge and the
\* target of another, also when an author id is textually a hashtag token.
C23_DirectedBipartite ==
    ret.op = "build_user_hashtag_graph" /\ ret.raised = "" =>
        LET sources == {e[1] : e \in EdgeSet(ret.graph)}
            targets == {e[2] : e \in EdgeSet(ret.graph)}
        IN  /\ sources \subseteq {ret.batch[i].author_id : i \in 1..Len(ret.batch)}
            /\ targets \subseteq UNION {Range(ret.batch[i].hashtags) : i \in 1..Len(ret.batch)}
            /\ sources \cap targets = {}

\* the nodes other than n that a walk along outgoing edges reaches from the nodes in from
RECURSIVE ReachedFrom(_, _)
ReachedFrom(g, from) ==
    LET more == from \cup {v \in NodeSet(g) : \E u \in from : <<u, v>> \in EdgeSet(g)}
    IN  IF more = from THEN from ELSE ReachedFrom(g, more)

\* C25: in the closeness ranking of a directed graph a node scores 0 exactly when
\* it reaches no other node along outgoing edges; a node with an outgoing path to
\* another node scores more than 0, also when no node reaches it.
C25_ClosenessOfOutgoingPaths ==
    ranking.metric = "closeness" =>
        \A i \in 1..Len(ranking.result) :
            LET n == ranking.result[i][1] IN
            (ranking.result[i][2] = 0) <=> (ReachedFrom(ranking.graph, {n}) = {n})

\* the phases a run with these arguments is to execute, in their order
SelectedPhases(phase, skip_collection) ==
    CASE phase = "collect" -> <<"collect">>
      [] phase = "analyze" -> <<"analyze">>
      [] phase = "visualize" -> <<"visualize">>
      [] phase = "all" -> IF skip_collection THEN <<"analyze", "visualize">>
                          ELSE <<"collect", "analyze", "visualize">>

\* the positions of main() after the collection phase was due
PastCollection == {"analyze", "visualize", "report", "done"}

\* C26: main() generates the report at most once, only after all the selected
\* phases have finished and only if every phase that ran returned success; when a
\* phase that ran has failed, no report is generated and the run ends as failed.
C26_ReportOnlyAfterSuccess ==
    /\ pipeline.reports <= 1
    /\ pipeline.reports = 1 =>
           /\ pipeline.pc = "done"
           /\ pipeline.ran = SelectedPhases(pipeline.phase, pipeline.skip_collection)
           /\ pipeline.failed = {}
    /\ pipeline.pc = "done" /\ pipeline.failed # {} =>
           /\ pipeline.reports = 0
           /\ ~pipeline.success

\* a run of all three phases that ended with the report
C26_Witness ==
    /\ pipeline.reports = 1
    /\ pipeline.ran = <<"collect", "analyze", "visualize">>

\* C27: a failed phase does not stop the later phases: with phase = all, graph
\* analysis and visualization are executed, in the order collect, analyze,
\* visualize, after data collection has failed, and visualization is executed
\* after graph analysis has failed.
C27_FailureDoesNotStopPhases ==
    pipeline.phase = "all" /\ pipeline.pc \in {"report", "done"} =>
        pipeline.ran = SelectedPhases("all", pipeline.skip_collection)

\* a finished run of all phases in which collection and analysis failed
C27_Witness ==
    /\ pipeline.pc = "done"
    /\ pipeline.phase = "all"
    /\ {"collect", "analyze"} \subseteq pipeline.failed
    /\ pipeline.ran = <<"collect", "analyze", "visualize">>

GatheredAt(positions) ==
    LET kept(h) == h.gathered /\ h.at \in positions
        entries == SelectSeq(collector.seen, kept)
    IN [i \in 1..Len(entries) |-> entries[i].doc]

\* C29: in collect_tweets_by_hashtags an error raised while collecting for one
\* hashtag discards every tweet gathered so far for that hashtag, keeps all the
\* tweets already collected for earlier hashtags, and the collection continues
\* with the remaining hashtags; every returned tweet has retweet_count >=
\* min_retweets or like_count >= min_likes.
C29_ErrorDiscardsOnlyItsHashtag ==
    /\ collector.all_tweets = GatheredAt(collector.completed)
    /\ collector.errors \cap collector.completed = {}
    /\ collector.pc = "returned" =>
           collector.errors \cup collector.completed = 1..Len(collector.hashtags)
    /\ \A i \in 1..Len(collector.all_tweets) :
           \/ collector.all_tweets[i].retweet_count >= collector.min_retweets
           \/ collector.all_tweets[i].like_count >= collector.min_likes

\* the collector has returned after an error at the second hashtag, which had
\* gathered a tweet, with a tweet of the first hashtag kept and the third collected
C29_Witness ==
    /\ collector.pc = "returned"
    /\ collector.errors = {2}
    /\ collector.completed = {1, 3}
    /\ GatheredAt({1}) # <<>>
    /\ GatheredAt({2}) # <<>>
    /\ collector.all_tweets = GatheredAt({1})
====
